---- MODULE Spec2Model ----
(***************************************************************************)
(* A model of the exchange-abstraction core: the Kraken deposit-address    *)
(* acquisition protocol (PrepareDeposit) with its dynamic response parser, *)
(* the mutator/operation converters, and the FillTracker contract.         *)
(*                                                                         *)
(* Go strings are modelled as sequences of tokens (the string is the       *)
(* tokens joined); strings.HasPrefix and strings.Contains are the prefix   *)
(* and the contiguous-subsequence tests on those sequences.  A Go          *)
(* interface{} value is a record tagged with its runtime type, a Go        *)
(* map[string]interface{} is a function whose DOMAIN is the set of its     *)
(* keys, and a Go (value, error) pair is a record [val, err].              *)
(***************************************************************************)
EXTENDS Integers, Sequences, FiniteSets, TLC

VARIABLES pc, asset, amount, dm, generateNewAddress, calls, ret,
          pin, pout,
          cin, cout,
          handlers, cursor, venueTrades, delivered, iterations, fetched, ftErr,
          venue, call

depositVars == <<pc, asset, amount, dm, generateNewAddress, calls, ret>>
parseVars   == <<pin, pout>>
convVars    == <<cin, cout>>
fillVars    == <<handlers, cursor, venueTrades, delivered, iterations, fetched, ftErr>>
twoVars     == <<venue, call>>
vars        == <<depositVars, parseVars, convVars, fillVars, twoVars>>

---------------------------------------------------------------------------
(* Bounds of the model *)

\* longest array a DepositAddresses response carries
MaxAddrs == 2
\* longest sequence handed to a converter
MaxOps == 2
\* trades the venue executes
MaxTrades == 3
\* handlers that may be registered on a tracker
MaxHandlers == 2
\* calls of FillTrackSingleIteration
MaxIterations == 3
\* deposit amounts range over 0..MaxAmount
MaxAmount == 2

(* Program constants *)
numberPrecision == 10

---------------------------------------------------------------------------
(* Go values *)

NilV       == [t |-> "nil"]
Str(s)     == [t |-> "string", v |-> s]
Bool(b)    == [t |-> "bool", v |-> b]
Float(f)   == [t |-> "float64", v |-> f]
MapV(m)    == [t |-> "map", v |-> m]
ArrV(a)    == [t |-> "array", v |-> a]
ErrV(msg)  == [t |-> "error", msg |-> msg]
R(val, err) == [val |-> val, err |-> err]

\* the empty map[string]interface{}
EmptyMap == [k \in {} |-> NilV]

\* reflect.TypeOf(value) as printed by %s
TypeOf(v) ==
  CASE v.t = "nil"     -> "<nil>"
    [] v.t = "map"     -> "map[string]interface {}"
    [] v.t = "array"   -> "[]interface {}"
    [] OTHER           -> v.t

\* the %v rendering of a value
FmtV(v) ==
  CASE v.t = "string"  -> v.v
    [] v.t = "bool"    -> <<IF v.v THEN "true" ELSE "false">>
    [] v.t = "float64" -> <<ToString(v.v)>>
    [] v.t = "nil"     -> <<"<nil>">>
    [] OTHER           -> <<TypeOf(v)>>

\* strings.HasPrefix(s, prefix)
HasPrefix(s, prefix) ==
  /\ Len(prefix) <= Len(s)
  /\ SubSeq(s, 1, Len(prefix)) = prefix

\* strings.Contains(s, substr)
Contains(s, substr) ==
  \E i \in 0..(Len(s) - Len(substr)) : SubSeq(s, i + 1, i + Len(substr)) = substr

---------------------------------------------------------------------------
(* number.Number *)

Number(n) == [t |-> "number", val |-> n, precision |-> numberPrecision]

\* number.FromFloat(f, precision)
FromFloat(f) == Number(f)

\* number.FromString(s, precision): a decimal literal parses, anything else is an error
FromString(s) ==
  IF Len(s) = 1 /\ \E n \in 0..9 : ToString(n) = s[1]
    THEN R(Number(CHOOSE n \in 0..9 : ToString(n) = s[1]), NilV)
    ELSE R(NilV, ErrV(<<"strconv.ParseFloat:", "parsing">> \o s \o <<":", "invalid", "syntax">>))

---------------------------------------------------------------------------
(* Dynamic response parser *)

prefixFieldNotFound ==
  <<"could", "not", "find", "field", "in", "map", "of", "PrepareDeposit">>

checkKeyPresent(m, key) ==
  IF key \notin DOMAIN m
    THEN R(NilV, ErrV(prefixFieldNotFound \o <<":", key>>))
    ELSE R(m[key], NilV)

makeParseError(field, dataType, methodAPI, value) ==
  ErrV(<<"could", "not", "parse", "the", "field", field, "as", "a", dataType,
         "in", "the", "response", "from", methodAPI, ":", "value=">>
       \o FmtV(value) \o <<",", "type=", TypeOf(value)>>)

parseString(m, key, methodAPI) ==
  LET c == checkKeyPresent(m, key) IN
  IF c.err # NilV THEN R(<<>>, c.err)
  ELSE IF c.val.t # "string" THEN R(<<>>, makeParseError(key, "string", methodAPI, c.val))
  ELSE R(c.val.v, NilV)

\* mutant: the key's presence is not checked, an absent key reads as a nil value
parseBool_NoPresenceCheck(m, key, methodAPI) ==
  LET v == IF key \in DOMAIN m THEN m[key] ELSE NilV IN
  IF v.t # "bool" THEN R(FALSE, makeParseError(key, "bool", methodAPI, v))
  ELSE R(v.v, NilV)

parseBool(m, key, methodAPI) ==
  LET c == checkKeyPresent(m, key) IN
  IF c.err # NilV THEN R(FALSE, c.err)
  ELSE IF c.val.t # "bool" THEN R(FALSE, makeParseError(key, "bool", methodAPI, c.val))
  ELSE R(c.val.v, NilV)

parseStringAsNumber(m, key, methodAPI) ==
  LET s == parseString(m, key, methodAPI) IN
  IF s.err # NilV THEN R(NilV, s.err)
  ELSE LET n == FromString(s.val) IN
       IF n.err # NilV
         THEN R(NilV, ErrV(<<"unable", "to", "convert", "the", "string", "field", key,
                             "to", "a", "number", "in", "the", "response", "from",
                             methodAPI, ":", "value=">> \o s.val
                           \o <<",", "error=">> \o n.err.msg))
         ELSE R(n.val, NilV)

parseFloatAsNumber(m, key, methodAPI) ==
  LET c == checkKeyPresent(m, key) IN
  IF c.err # NilV THEN R(NilV, c.err)
  ELSE IF c.val.t # "float64" THEN R(NilV, makeParseError(key, "float", methodAPI, c.val))
  ELSE R(FromFloat(c.val.v), NilV)

parseNumber(m, key, methodAPI) ==
  LET c == checkKeyPresent(m, key) IN
  IF c.err # NilV THEN R(NilV, c.err)
  ELSE CASE c.val.t = "string"  -> parseStringAsNumber(m, key, methodAPI)
         [] c.val.t = "float64" -> parseFloatAsNumber(m, key, methodAPI)
         [] OTHER               -> R(NilV, makeParseError(key, "number", methodAPI, c.val))

---------------------------------------------------------------------------
(* Kraken deposit methods and addresses *)

\* the depositMethod struct
depositMethod(method, limit, fee, genAddress) ==
  [method |-> method, limit |-> limit, fee |-> fee, genAddress |-> genAddress]

\* the depositAddress struct
depositAddress(address, expireTs, isNew) ==
  [address |-> address, expireTs |-> expireTs, isNew |-> isNew]

parseDepositAddress(m) ==
  LET address == parseString(m, "address", "DepositAddresses")
      expireN == parseNumber(m, "expiretm", "DepositAddresses")
      isNew   == parseBool(m, "new", "DepositAddresses")
  IN
  IF address.err # NilV THEN R(NilV, address.err)
  ELSE IF expireN.err # NilV THEN R(NilV, expireN.err)
  ELSE IF isNew.err # NilV /\ ~HasPrefix(isNew.err.msg, prefixFieldNotFound)
    THEN R(NilV, isNew.err)
  ELSE R(depositAddress(address.val, expireN.val.val,
                        IF isNew.err # NilV THEN FALSE ELSE isNew.val), NilV)

\* mutant: a boolean 'limit' of true is taken as no limit, like false
parseDepositMethods_TrueUnlimited(m) ==
  LET method == parseString(m, "method", "DepositMethods")
      limB   == parseBool(m, "limit", "DepositMethods")
      limN   == parseNumber(m, "limit", "DepositMethods")
      limit  == IF limB.err # NilV THEN limN.val ELSE NilV
      feeN   == parseNumber(m, "fee", "DepositMethods")
      fee    == IF feeN.err # NilV THEN NilV ELSE feeN.val
      genAddress == parseBool(m, "gen-address", "DepositMethods")
  IN
  IF method.err # NilV THEN R(NilV, method.err)
  ELSE IF limB.err # NilV /\ limN.err # NilV THEN R(NilV, limN.err)
  ELSE IF feeN.err # NilV /\ ~HasPrefix(feeN.err.msg, prefixFieldNotFound)
    THEN R(NilV, feeN.err)
  ELSE IF genAddress.err # NilV THEN R(NilV, genAddress.err)
  ELSE R(depositMethod(method.val, limit, fee, genAddress.val), NilV)

parseDepositMethods(m) ==
  LET method == parseString(m, "method", "DepositMethods")
      limB   == parseBool(m, "limit", "DepositMethods")
      limN   == parseNumber(m, "limit", "DepositMethods")
      limit  == IF limB.err # NilV THEN limN.val ELSE NilV
      feeN   == parseNumber(m, "fee", "DepositMethods")
      fee    == IF feeN.err # NilV THEN NilV ELSE feeN.val
      genAddress == parseBool(m, "gen-address", "DepositMethods")
  IN
  IF method.err # NilV THEN R(NilV, method.err)
  ELSE IF limB.err # NilV /\ limN.err # NilV THEN R(NilV, limN.err)
  ELSE IF limB.err = NilV /\ limB.val
    THEN R(NilV, ErrV(<<"invalid", "value", "for", "'limit'", "as", "a", "response",
                        "from", "DepositMethods", ":", "boolean", "value", "of",
                        "'limit'", "should", "never", "be", "'true'">>))
  ELSE IF feeN.err # NilV /\ ~HasPrefix(feeN.err.msg, prefixFieldNotFound)
    THEN R(NilV, feeN.err)
  ELSE IF genAddress.err # NilV THEN R(NilV, genAddress.err)
  ELSE R(depositMethod(method.val, limit, fee, genAddress.val), NilV)

\* a panic of the Go runtime (index out of range on an empty array)
PanicV == [t |-> "panic"]

\* getDepositMethods, given the outcome q of the DepositMethods query
getDepositMethods(q) ==
  IF q.err # NilV THEN R(NilV, q.err)
  ELSE IF q.val.t = "array"
    THEN IF Len(q.val.v) = 0 THEN R(PanicV, NilV)
         ELSE IF q.val.v[1].t = "map" THEN parseDepositMethods(q.val.v[1].v)
         ELSE R(NilV, ErrV(<<"could", "not", "parse", "inner", "response", "type", "of",
                             "returned", "[]interface{}", "from", "DepositMethods", ":",
                             TypeOf(q.val.v[1])>>))
  ELSE R(NilV, ErrV(<<"could", "not", "parse", "response", "type", "from",
                      "DepositMethods", ":", TypeOf(q.val)>>))

\* mutant: the "new" parameter is sent with every listing query
depositAddressInput_AlwaysForce(krakenAsset, method, genAddress) ==
  [asset |-> krakenAsset, method |-> method, new |-> <<"true">>]

\* mutant: the "new" parameter is never sent
depositAddressInput_NeverForce(krakenAsset, method, genAddress) ==
  [asset |-> krakenAsset, method |-> method]

\* the parameters getDepositAddress sends with the DepositAddresses query
depositAddressInput(krakenAsset, method, genAddress) ==
  IF genAddress
    THEN [asset |-> krakenAsset, method |-> method, new |-> <<"true">>]
    ELSE [asset |-> krakenAsset, method |-> method]

\* the loop of getDepositAddress over the response array, from element i on
RECURSIVE parseAddressArray(_, _, _)
parseAddressArray(arr, i, addressList) ==
  IF i > Len(arr) THEN R(addressList, NilV)
  ELSE IF arr[i].t = "map"
    THEN LET da == parseDepositAddress(arr[i].v) IN
         IF da.err # NilV THEN R(<<>>, da.err)
         ELSE parseAddressArray(arr, i + 1, Append(addressList, da.val))
  ELSE R(<<>>, ErrV(<<"could", "not", "parse", "inner", "response", "type", "of",
                      "returned", "[]interface{}", "from", "DepositAddresses", ":",
                      TypeOf(arr[i])>>))

\* getDepositAddress, given the outcome q of the DepositAddresses query
getDepositAddress(q) ==
  IF q.err # NilV THEN R(<<>>, q.err)
  ELSE IF q.val.t = "array" THEN parseAddressArray(q.val.v, 1, <<>>)
  ELSE R(<<>>, ErrV(<<"could", "not", "parse", "response", "type", "from",
                      "DepositAddresses", ":", TypeOf(q.val)>>))

\* mutant: the used-up addresses are not discarded
keepOnlyNew_KeepAll(addressList) == addressList

keepOnlyNew(addressList) == SelectSeq(addressList, LAMBDA a : a.isNew)

---------------------------------------------------------------------------
(* Error values of the deposit API *)

\* Number.AsString
AsString(n) == ToString(n.val)

MakeErrDepositAmountAboveLimit(amt, limit) ==
  ErrV(<<"deposit", "amount", "(", AsString(amt), ")", "is", "greater", "than",
         "limit", "(", AsString(limit), ")">>)

MakeErrTooManyDepositAddresses ==
  ErrV(<<"too", "many", "deposit", "addresses", ",", "try", "reusing", "one", "of", "them">>)

\* the venue's signal that the address pool is exhausted
TooManySignal == <<"EFunding:Too", "many", "addresses">>

ErrGenerateFailed ==
  ErrV(<<"attempt", "to", "generate", "a", "new", "address", "failed">>)

\* the PrepareDepositResult struct
PrepareDepositResult(fee, address, expireTs) ==
  [t |-> "result", Fee |-> fee, Address |-> address, ExpireTs |-> expireTs]

---------------------------------------------------------------------------
(* The venue: what the remote queries may answer *)

Field(k, Vals)    == {k :> v : v \in Vals}
OptField(k, Vals) == Field(k, Vals) \cup {EmptyMap}

\* sequences over S of length at most n
SeqsUpTo(S, n) == UNION {[1..k -> S] : k \in 0..n}

Assets  == {"XLM", "???"}
Amounts == {Number(n) : n \in 0..MaxAmount}

\* errors of the remote-query transport
TransportErrs ==
  { ErrV(<<"Could", "not", "execute", "request!", "(">> \o TooManySignal \o <<")">>),
    ErrV(<<"EAPI:Rate", "limit", "exceeded">>),
    ErrV(<<"EFunding:Too", "many", "requests">>) }

\* the maps a DepositMethods response may carry as its first element
MethodMaps ==
  { a @@ b @@ c @@ d :
      a \in OptField("method", {Str(<<"Bitcoin">>)}),
      b \in OptField("limit", {Bool(FALSE), Bool(TRUE), Float(1), Str(<<"2">>), Str(<<"x">>)}),
      c \in OptField("fee", {Float(1), Bool(TRUE)}),
      d \in OptField("gen-address", {Bool(TRUE)}) }

MethodsOutcomes ==
  {R(NilV, e) : e \in TransportErrs}
  \cup {R(ArrV(<<MapV(m)>>), NilV) : m \in MethodMaps}
  \cup {R(ArrV(<<>>), NilV), R(ArrV(<<Str(<<"Bitcoin">>)>>), NilV), R(MapV(EmptyMap), NilV)}

\* the maps a DepositAddresses response may carry
AddrMaps ==
  { [address |-> Str(<<"A">>), expiretm |-> Float(0), new |-> Bool(TRUE)],
    [address |-> Str(<<"B">>), expiretm |-> Str(<<"5">>), new |-> Bool(TRUE)],
    [address |-> Str(<<"C">>), expiretm |-> Float(0), new |-> Bool(FALSE)],
    [address |-> Str(<<"D">>), expiretm |-> Float(0)],
    [address |-> Str(<<"E">>), expiretm |-> Float(0), new |-> Str(<<"yes">>)],
    [expiretm |-> Float(0), new |-> Bool(TRUE)],
    [address |-> Str(<<"F">>), expiretm |-> Str(TooManySignal), new |-> Bool(TRUE)],
    [address |-> Str(<<"G">>), expiretm |-> Float(0), new |-> Str(TooManySignal)] }

ListOutcomes ==
  {R(NilV, e) : e \in TransportErrs}
  \cup {R(ArrV(a), NilV) : a \in SeqsUpTo({MapV(m) : m \in AddrMaps}, MaxAddrs)}
  \cup {R(ArrV(<<Str(<<"A">>)>>), NilV), R(MapV(EmptyMap), NilV)}

---------------------------------------------------------------------------
(* PrepareDeposit *)

\* k.assetConverter.ToString(asset)
AssetToString(a) ==
  IF a = "XLM" THEN R(<<"XXLM">>, NilV)
  ELSE R(<<>>, ErrV(<<"could", "not", "recognize", "asset", a>>))

\* mutant: an amount equal to the limit is refused too
aboveLimit_Inclusive(d, amt) == d.limit # NilV /\ d.limit.val <= amt.val

\* the limit check
aboveLimit(d, amt) == d.limit # NilV /\ d.limit.val < amt.val

\* mutant: the signal is recognised only at the start of the message
listingError_PrefixOnly(e) ==
  IF HasPrefix(e.msg, TooManySignal) THEN MakeErrTooManyDepositAddresses ELSE e

\* the error PrepareDeposit returns when getDepositAddress fails with e
listingError(e) ==
  IF Contains(e.msg, TooManySignal) THEN MakeErrTooManyDepositAddresses ELSE e

\* mutant: the first fresh address is picked
selectAddress_First(addressList) == addressList[1]

\* the address picked from a non-empty list of fresh addresses
selectAddress(addressList) == addressList[Len(addressList)]

\* mutant: a failed forced generation is retried
onNoFreshAddress_AlwaysRetry(gen) == [returned |-> FALSE, ret |-> NilV, gen |-> TRUE]

\* mutant: no forced generation is attempted
onNoFreshAddress_NeverRetry(gen) ==
  [returned |-> TRUE, ret |-> R(NilV, ErrGenerateFailed), gen |-> gen]

\* the end of an iteration whose listing held no fresh address: fail if the
\* listing was a forced generation, else retry with the flag set
onNoFreshAddress(gen) ==
  IF gen
    THEN [returned |-> TRUE, ret |-> R(NilV, ErrGenerateFailed), gen |-> gen]
    ELSE [returned |-> FALSE, ret |-> NilV, gen |-> TRUE]

\* one iteration of the loop, given the outcome q of its DepositAddresses query:
\* it returns (returned, ret) or continues with a new flag
loopIteration(q, d, gen) ==
  LET r     == getDepositAddress(q)
      fresh == keepOnlyNew(r.val)
  IN
  IF r.err # NilV
    THEN [returned |-> TRUE, ret |-> R(NilV, listingError(r.err)), gen |-> gen]
  ELSE IF Len(fresh) > 0
    THEN [returned |-> TRUE,
          ret |-> R(PrepareDepositResult(d.fee, selectAddress(fresh).address,
                                         selectAddress(fresh).expireTs), NilV),
          gen |-> gen]
  ELSE onNoFreshAddress(gen)

Call(op, input, out) == [op |-> op, input |-> input, out |-> out]

IdleDeposit == /\ pc = "idle" /\ asset = "XLM" /\ amount = Number(0) /\ dm = NilV
               /\ generateNewAddress = FALSE /\ calls = <<>> /\ ret = NilV
IdleParse == pin = NilV /\ pout = NilV
IdleConv  == cin = NilV /\ cout = NilV
IdleTwo   == venue = NilV /\ call = <<>>
IdleFill  == /\ handlers = <<>> /\ cursor = 0 /\ venueTrades = <<>> /\ delivered = <<>>
             /\ iterations = <<>> /\ fetched = <<>> /\ ftErr = NilV

Init ==
  /\ pc = "start"
  /\ asset \in Assets
  /\ amount \in Amounts
  /\ dm = NilV
  /\ generateNewAddress = FALSE
  /\ calls = <<>>
  /\ ret = NilV
  /\ IdleParse /\ IdleConv /\ IdleFill /\ IdleTwo

ConvertAsset ==
  /\ pc = "start"
  /\ LET a == AssetToString(asset) IN
     IF a.err # NilV
       THEN pc' = "done" /\ ret' = R(NilV, a.err)
       ELSE pc' = "methods" /\ ret' = ret
  /\ UNCHANGED <<asset, amount, dm, generateNewAddress, calls>>
  /\ UNCHANGED <<parseVars, convVars, fillVars, twoVars>>

QueryDepositMethods ==
  /\ pc = "methods"
  /\ \E q \in MethodsOutcomes :
       LET r == getDepositMethods(q) IN
       /\ calls' = Append(calls, Call("DepositMethods",
                                      [asset |-> AssetToString(asset).val], q))
       /\ IF r.val = PanicV
            THEN pc' = "panic" /\ ret' = ret /\ dm' = dm
          ELSE IF r.err # NilV
            THEN pc' = "done" /\ ret' = R(NilV, r.err) /\ dm' = dm
          ELSE IF aboveLimit(r.val, amount)
            THEN /\ pc' = "done"
                 /\ ret' = R(NilV, MakeErrDepositAmountAboveLimit(amount, r.val.limit))
                 /\ dm' = r.val
          ELSE pc' = "list" /\ ret' = ret /\ dm' = r.val
  /\ UNCHANGED <<asset, amount, generateNewAddress>>
  /\ UNCHANGED <<parseVars, convVars, fillVars, twoVars>>

QueryDepositAddresses ==
  /\ pc = "list"
  /\ \E q \in ListOutcomes :
       LET it == loopIteration(q, dm, generateNewAddress) IN
       /\ calls' = Append(calls, Call("DepositAddresses",
                            depositAddressInput(AssetToString(asset).val, dm.method,
                                                generateNewAddress), q))
       /\ generateNewAddress' = it.gen
       /\ IF it.returned
            THEN pc' = "done" /\ ret' = it.ret
            ELSE pc' = "list" /\ ret' = ret
  /\ UNCHANGED <<asset, amount, dm>>
  /\ UNCHANGED <<parseVars, convVars, fillVars, twoVars>>

Next == ConvertAsset \/ QueryDepositMethods \/ QueryDepositAddresses

Spec == Init /\ [][Next]_vars

FairSpec == Spec /\ WF_vars(Next)

---------------------------------------------------------------------------
(* Observations on a PrepareDeposit call, read off the venue's raw answers *)

\* the DepositAddresses queries issued so far, in order
listCalls == SelectSeq(calls, LAMBDA c : c.op = "DepositAddresses")

ReturnedOK == pc = "done" /\ ret.err = NilV

\* the query asked the venue to mint a new address
Forced(c) == "new" \in DOMAIN c.input /\ c.input.new = <<"true">>

\* the venue marked entry x of a listing new=true
MarkedNew(x) == x.t = "map" /\ "new" \in DOMAIN x.v /\ x.v.new = Bool(TRUE)

\* the listing answered by the venue is an array of address entries with a string
\* address, a numeric expiry and a boolean (or no) freshness mark
WellFormedEntry(x) ==
  /\ x.t = "map"
  /\ "address" \in DOMAIN x.v /\ x.v.address.t = "string"
  /\ "expiretm" \in DOMAIN x.v
  /\ \/ x.v.expiretm.t = "float64"
     \/ x.v.expiretm.t = "string" /\ x.v.expiretm.v \in {<<ToString(n)>> : n \in 0..9}
  /\ "new" \in DOMAIN x.v => x.v.new.t = "bool"

WellFormedListing(q) ==
  /\ q.err = NilV
  /\ q.val.t = "array"
  /\ \A i \in 1..Len(q.val.v) : WellFormedEntry(q.val.v[i])

\* positions of the entries the venue marked new, in a well-formed listing
FreshPositions(q) == {i \in 1..Len(q.val.v) : MarkedNew(q.val.v[i])}

Max(S) == CHOOSE x \in S : \A y \in S : y <= x
Min(S) == CHOOSE x \in S : \A y \in S : x <= y

---------------------------------------------------------------------------
(* Claims on PrepareDeposit *)

\* C1: whenever PrepareDeposit returns a result without error, the returned address
\* is one the venue marked new=true in the answer to the call's last listing query,
\* and no entry of that listing carries the address without that mark.
C1_ReturnsOnlyFreshAddress ==
  ReturnedOK =>
    LET c == calls[Len(calls)] IN
    /\ c.op = "DepositAddresses"
    /\ c.out.err = NilV /\ c.out.val.t = "array"
    /\ \E i \in 1..Len(c.out.val.v) :
         /\ MarkedNew(c.out.val.v[i])
         /\ "address" \in DOMAIN c.out.val.v[i].v
         /\ c.out.val.v[i].v.address = Str(ret.val.Address)
    /\ \A i \in 1..Len(c.out.val.v) :
         ("address" \in DOMAIN c.out.val.v[i].v
            /\ c.out.val.v[i].v.address = Str(ret.val.Address))
         => MarkedNew(c.out.val.v[i])

\* a call returned an address from a listing that also held a non-fresh entry
C1_Witness ==
  /\ ReturnedOK
  /\ LET a == calls[Len(calls)].out.val.v IN
     /\ \E i \in 1..Len(a) : MarkedNew(a[i])
     /\ \E i \in 1..Len(a) : ~MarkedNew(a[i])

\* C2: a call issues at most two listing queries, the first unforced and the second
\* forced, has returned once the second is answered, and (every query returning)
\* eventually terminates.
C2_Bound ==
  LET L == listCalls IN
  /\ Len(L) <= 2
  /\ Len(L) >= 1 => ~Forced(L[1])
  /\ Len(L) = 2 => Forced(L[2]) /\ pc = "done"

C2_AtMostTwoListings == [](C2_Bound) /\ <>(pc \in {"done", "panic"})

\* a call that has returned after two listing queries
C2_Witness == pc = "done" /\ Len(listCalls) = 2

\* C3 as stated: with several fresh addresses listed, the first fresh address in list
\* order is returned, with the method's fee.
C3_FirstFreshSelected ==
  (ReturnedOK /\ WellFormedListing(calls[Len(calls)].out)) =>
    LET q == calls[Len(calls)].out IN
    /\ Str(ret.val.Address) = q.val.v[Min(FreshPositions(q))].v.address
    /\ ret.val.Fee = dm.fee

\* C3 amended: the last fresh address in list order is returned, with the method's fee.
C3_LastFreshSelected ==
  (ReturnedOK /\ WellFormedListing(calls[Len(calls)].out)) =>
    LET q == calls[Len(calls)].out IN
    /\ Str(ret.val.Address) = q.val.v[Max(FreshPositions(q))].v.address
    /\ ret.val.Fee = dm.fee

\* a call returned from a listing with two or more fresh addresses
C3_Witness ==
  /\ ReturnedOK
  /\ WellFormedListing(calls[Len(calls)].out)
  /\ Cardinality(FreshPositions(calls[Len(calls)].out)) >= 2

\* C4: if the unforced listing holds no fresh address, the call goes on to a forced
\* listing, and if that one holds exactly one fresh address the call returns it
\* without error after exactly these two listing queries.
C4_GenerateThenReturn ==
  LET L == listCalls IN
  /\ (Len(L) = 1 /\ WellFormedListing(L[1].out) /\ FreshPositions(L[1].out) = {})
       => pc = "list" /\ generateNewAddress
  /\ (Len(L) = 2 /\ WellFormedListing(L[2].out)
        /\ Cardinality(FreshPositions(L[2].out)) = 1)
       => /\ ~Forced(L[1]) /\ Forced(L[2])
          /\ WellFormedListing(L[1].out) /\ FreshPositions(L[1].out) = {}
          /\ ReturnedOK
          /\ \A i \in FreshPositions(L[2].out) :
               Str(ret.val.Address) = L[2].out.val.v[i].v.address

\* zero fresh addresses listed, then exactly one after forced generation
C4_Witness ==
  LET L == listCalls IN
  /\ Len(L) = 2 /\ ReturnedOK
  /\ WellFormedListing(L[1].out) /\ FreshPositions(L[1].out) = {}
  /\ WellFormedListing(L[2].out) /\ Cardinality(FreshPositions(L[2].out)) = 1

\* C5: if neither the unforced nor the forced listing holds a fresh address, the call
\* returns no result and the generation-failed error, after exactly one forced query.
C5_GenerationFailed ==
  LET L == listCalls IN
  (Len(L) = 2 /\ WellFormedListing(L[2].out) /\ FreshPositions(L[2].out) = {})
    => /\ ~Forced(L[1]) /\ Forced(L[2])
       /\ pc = "done"
       /\ ret = R(NilV, ErrV(<<"attempt", "to", "generate", "a", "new", "address", "failed">>))

\* both listings were answered without a fresh address
C5_Witness ==
  LET L == listCalls IN
  /\ Len(L) = 2 /\ pc = "done"
  /\ WellFormedListing(L[1].out) /\ FreshPositions(L[1].out) = {}
  /\ WellFormedListing(L[2].out) /\ FreshPositions(L[2].out) = {}
  /\ Len(L[2].out.val.v) > 0

\* C6: if the method reports a limit and the amount exceeds it, the call fails with
\* the above-limit error built from (amount, limit) and issues no listing query; the
\* above-limit error is returned in no other case.
C6_AboveLimit ==
  /\ (dm # NilV /\ dm.limit # NilV /\ amount.val > dm.limit.val)
       => /\ pc = "done"
          /\ ret = R(NilV, ErrV(<<"deposit", "amount", "(", ToString(amount.val), ")",
                                  "is", "greater", "than", "limit", "(",
                                  ToString(dm.limit.val), ")">>))
          /\ listCalls = <<>>
  /\ (pc = "done" /\ ret.err # NilV /\ HasPrefix(ret.err.msg, <<"deposit", "amount">>))
       => dm # NilV /\ dm.limit # NilV /\ amount.val > dm.limit.val

\* a call was refused for an amount above the limit
C6_Witness ==
  /\ pc = "done" /\ dm # NilV /\ dm.limit # NilV /\ amount.val > dm.limit.val

\* C7: a listing that fails with an error quoting the venue's too-many-addresses
\* signal makes the call return the dedicated error; a listing that fails with any
\* other error makes the call return that error unchanged; no listing follows it.
C7_ListingErrors ==
  LET L == listCalls IN
  \A i \in 1..Len(L) :
    LET e == getDepositAddress(L[i].out).err IN
    e # NilV =>
      /\ i = Len(L) /\ pc = "done" /\ ret.val = NilV
      /\ Contains(e.msg, <<"EFunding:Too", "many", "addresses">>)
           => ret.err = ErrV(<<"too", "many", "deposit", "addresses", ",", "try",
                               "reusing", "one", "of", "them">>)
      /\ ~Contains(e.msg, <<"EFunding:Too", "many", "addresses">>) => ret.err = e

\* the forced listing failed in transport with an error that quotes the signal
C7_Witness ==
  LET L == listCalls IN
  /\ Len(L) = 2 /\ pc = "done"
  /\ L[2].out.err # NilV
  /\ Contains(L[2].out.err.msg, <<"EFunding:Too", "many", "addresses">>)

---------------------------------------------------------------------------
(* The parser functions applied to arbitrary maps and keys *)

\* the values a response field may hold (nil is a JSON null)
FieldValues ==
  {Str(<<"7">>), Str(<<"x">>), Bool(TRUE), Bool(FALSE), Float(1), NilV}

ParseMaps == {a @@ b : a \in OptField("fee", FieldValues), b \in OptField("new", FieldValues)}
ParseKeys == {"fee", "new", "limit"}
ParseAPIs == {"DepositMethods", "DepositAddresses"}

InitParse ==
  /\ pin \in [m : ParseMaps, key : ParseKeys, methodAPI : ParseAPIs]
  /\ pout = NilV
  /\ IdleDeposit /\ IdleConv /\ IdleFill /\ IdleTwo

CallParseString ==
  /\ pout = NilV
  /\ pout' = [fn |-> "parseString", r |-> parseString(pin.m, pin.key, pin.methodAPI)]
  /\ UNCHANGED <<pin, depositVars, convVars, fillVars, twoVars>>

CallParseBool ==
  /\ pout = NilV
  /\ pout' = [fn |-> "parseBool", r |-> parseBool(pin.m, pin.key, pin.methodAPI)]
  /\ UNCHANGED <<pin, depositVars, convVars, fillVars, twoVars>>

CallParseNumber ==
  /\ pout = NilV
  /\ pout' = [fn |-> "parseNumber", r |-> parseNumber(pin.m, pin.key, pin.methodAPI)]
  /\ UNCHANGED <<pin, depositVars, convVars, fillVars, twoVars>>

NextParse == CallParseString \/ CallParseBool \/ CallParseNumber

SpecParse == InitParse /\ [][NextParse]_vars

---------------------------------------------------------------------------
(* Claims on the parser *)

\* the runtime type of v is one the parser function accepts
ExpectedType(fn, v) ==
  CASE fn = "parseString" -> v.t = "string"
    [] fn = "parseBool"   -> v.t = "bool"
    [] fn = "parseNumber" -> v.t \in {"string", "float64"}

\* the data type a type-mismatch error of the function names
NamedType(fn) ==
  CASE fn = "parseString" -> "string"
    [] fn = "parseBool"   -> "bool"
    [] fn = "parseNumber" -> "number"

\* e is the type-mismatch error for the field: it names the field, the expected
\* type, the API context and the actual runtime type
IsTypeMismatch(e, fn, key, methodAPI, v) ==
  /\ HasPrefix(e.msg, <<"could", "not", "parse", "the", "field", key, "as", "a",
                        NamedType(fn), "in", "the", "response", "from", methodAPI>>)
  /\ e.msg[Len(e.msg)] = TypeOf(v)

IsDecimalString(v) == v.t = "string" /\ v.v \in {<<ToString(n)>> : n \in 0..9}

\* the parts of C8 on absent keys and on values of the wrong runtime type
C8_AbsentAndWrongType ==
  LET m == pin.m  key == pin.key  e == pout.r.err IN
  /\ key \notin DOMAIN m => e # NilV /\ HasPrefix(e.msg, prefixFieldNotFound)
  /\ (key \in DOMAIN m /\ ~ExpectedType(pout.fn, m[key]))
       => /\ e # NilV
          /\ ~HasPrefix(e.msg, prefixFieldNotFound)
          /\ IsTypeMismatch(e, pout.fn, key, pin.methodAPI, m[key])

\* C8 as stated: an absent key gives an error starting with the field-not-found
\* prefix, a present value of the wrong runtime type gives a type-mismatch error not
\* starting with it, and a present value of the expected type gives no error.
C8_ParserErrorKinds ==
  pout # NilV =>
    /\ C8_AbsentAndWrongType
    /\ (pin.key \in DOMAIN pin.m /\ ExpectedType(pout.fn, pin.m[pin.key]))
         => pout.r.err = NilV

\* C8 amended: as stated, except that parseNumber on a present string that is not a
\* decimal literal fails with a conversion error, which is neither a field-not-found
\* nor a type-mismatch error.
C8_ParserErrorKindsAmended ==
  pout # NilV =>
    LET m == pin.m  key == pin.key  e == pout.r.err
        badNumber == pout.fn = "parseNumber" /\ m[key].t = "string"
                     /\ ~IsDecimalString(m[key])
    IN
    /\ C8_AbsentAndWrongType
    /\ (key \in DOMAIN m /\ ExpectedType(pout.fn, m[key]) /\ ~badNumber) => e = NilV
    /\ (key \in DOMAIN m /\ badNumber)
         => /\ e # NilV
            /\ ~HasPrefix(e.msg, prefixFieldNotFound)
            /\ ~HasPrefix(e.msg, <<"could", "not", "parse">>)
            /\ HasPrefix(e.msg, <<"unable", "to", "convert", "the", "string", "field", key>>)

\* parseNumber was applied to a map whose "fee" is present but boolean
C8_Witness ==
  /\ pout # NilV /\ pout.fn = "parseNumber" /\ pin.key = "fee"
  /\ "fee" \in DOMAIN pin.m /\ pin.m["fee"].t = "bool"
  /\ pout.r.err # NilV

---------------------------------------------------------------------------
(* Operations (txnbuild) and transaction mutators (build) *)

\* txnbuild.NativeAsset and txnbuild.CreditAsset
NativeAsset == [t |-> "NativeAsset"]
CreditAsset(code, issuer) == [t |-> "CreditAsset", Code |-> code, Issuer |-> issuer]

\* build.Asset{Code, Issuer, Native} of a txnbuild asset, as the xdr asset the builder stores
XdrAsset(a) ==
  IF a.t = "NativeAsset"
    THEN [Type |-> "AssetTypeNative"]
    ELSE [Type |-> "AssetTypeCredit", Code |-> a.Code, Issuer |-> a.Issuer]

\* the asset of an operation rebuilt from an xdr asset
TxnAsset(x) ==
  IF x.Type = "AssetTypeNative" THEN NativeAsset ELSE CreditAsset(x.Code, x.Issuer)

\* the seven decimals of num/den, most significant first
RECURSIVE Decimals(_, _, _)
Decimals(num, den, k) ==
  IF k = 0 THEN <<>>
  ELSE <<ToString((num * 10) \div den)>> \o Decimals((num * 10) % den, den, k - 1)

\* fmt.Sprintf("%.7f", float64(num)/float64(den))
Sprintf7f(num, den) ==
  IF den = 0 THEN <<IF num = 0 THEN "NaN" ELSE "+Inf">>
  ELSE <<ToString(num \div den), ".">> \o Decimals(num % den, den, 7)

\* the whole number a decimal string of a test operation denotes
WholeOf(str) == CHOOSE n \in 0..9 : ToString(n) = str[1]

\* build.Amount(amount): the amount in stroops
BuildAmount(amt) == WholeOf(amt) * 10000000

\* build.Price(price): the price as a fraction
BuildPrice(price) == [N |-> WholeOf(price), D |-> 1]

\* the zero value of the xdr offer body a builder does not fill
ZeroOffer ==
  [Amount |-> 0, Price |-> [N |-> 0, D |-> 0], OfferId |-> 0,
   Selling |-> [Type |-> "AssetTypeNative"], Buying |-> [Type |-> "AssetTypeNative"]]

\* build.ManageOffer(isPassiveSell, amount, rate, offerID): a passive builder fills
\* PO, any other fills MO
ManageOffer(isPassiveSell, amt, selling, buying, price, offerId) ==
  LET body == [Amount |-> BuildAmount(amt), Price |-> BuildPrice(price),
               OfferId |-> offerId,
               Selling |-> XdrAsset(selling), Buying |-> XdrAsset(buying)]
  IN [t |-> "ManageOfferBuilder", ptr |-> FALSE, PassiveOffer |-> isPassiveSell,
      O |-> [SourceAccount |-> NilV],
      MO |-> IF isPassiveSell THEN ZeroOffer ELSE body,
      PO |-> IF isPassiveSell THEN [body EXCEPT !.OfferId = 0] ELSE ZeroOffer]

\* the operation can be converted to a mutator
ConvertibleOp(o) == o.t \in {"CreatePassiveSellOffer", "ManageSellOffer"}

\* the body of the loop of ConvertOperation2TM for a convertible operation
ConvertOp2MOB(o) ==
  LET isPassiveSell == o.t = "CreatePassiveSellOffer"
      offerId == IF isPassiveSell THEN 0 ELSE o.OfferID
      mob == ManageOffer(isPassiveSell, o.Amount, o.Selling, o.Buying, o.Price, offerId)
  IN IF o.SourceAccount # NilV
       THEN [mob EXCEPT !.O.SourceAccount = [t |-> "AccountId", Address |-> o.SourceAccount.AccountID]]
       ELSE mob

ConvertMOB2MSO(mob) ==
  [t |-> "ManageSellOffer",
   Amount |-> Sprintf7f(mob.MO.Amount, 10000000),
   OfferID |-> mob.MO.OfferId,
   Price |-> Sprintf7f(mob.MO.Price.N, mob.MO.Price.D),
   SourceAccount |-> IF mob.O.SourceAccount # NilV
                       THEN [t |-> "SimpleAccount", AccountID |-> mob.O.SourceAccount.Address]
                       ELSE NilV,
   Buying |-> TxnAsset(mob.MO.Buying),
   Selling |-> TxnAsset(mob.MO.Selling)]

ConvertMOB2PSO(mob) ==
  [t |-> "CreatePassiveSellOffer",
   Amount |-> Sprintf7f(mob.PO.Amount, 10000000),
   Price |-> Sprintf7f(mob.PO.Price.N, mob.PO.Price.D),
   SourceAccount |-> IF mob.O.SourceAccount # NilV
                       THEN [t |-> "SimpleAccount", AccountID |-> mob.O.SourceAccount.Address]
                       ELSE NilV,
   Buying |-> TxnAsset(mob.PO.Buying),
   Selling |-> TxnAsset(mob.PO.Selling)]

\* the result of a converter: the slice it returns, or a panic
Converted(out) == [panicked |-> FALSE, out |-> out]
Panicked       == [panicked |-> TRUE, out |-> <<>>]

\* mutant: each converted operation is put in front of the ones converted before
RECURSIVE ConvertOperation2TMPrepending(_, _, _)
ConvertOperation2TMPrepending(ops, i, muts) ==
  IF i > Len(ops) THEN Converted(muts)
  ELSE IF ConvertibleOp(ops[i])
    THEN ConvertOperation2TMPrepending(ops, i + 1, <<ConvertOp2MOB(ops[i])>> \o muts)
  ELSE Panicked

\* the loop of ConvertOperation2TM from operation i on, muts being the mutators so far
RECURSIVE ConvertOperation2TMFrom(_, _, _)
ConvertOperation2TMFrom(ops, i, muts) ==
  IF i > Len(ops) THEN Converted(muts)
  ELSE IF ConvertibleOp(ops[i])
    THEN ConvertOperation2TMFrom(ops, i + 1, Append(muts, ConvertOp2MOB(ops[i])))
  ELSE Panicked

ConvertOperation2TM(ops) == ConvertOperation2TMFrom(ops, 1, <<>>)

\* the mutator is a build.ManageOfferBuilder or a pointer to one
IsMOB(m) == m.t = "ManageOfferBuilder"

RECURSIVE ConvertTM2MSOFrom(_, _, _)
ConvertTM2MSOFrom(muts, i, msos) ==
  IF i > Len(muts) THEN Converted(msos)
  ELSE IF IsMOB(muts[i])
    THEN ConvertTM2MSOFrom(muts, i + 1, Append(msos, ConvertMOB2MSO(muts[i])))
  ELSE Panicked

ConvertTM2MSO(muts) == ConvertTM2MSOFrom(muts, 1, <<>>)

RECURSIVE ConvertMSO2OpsFrom(_, _, _)
ConvertMSO2OpsFrom(msos, i, ops) ==
  IF i > Len(msos) THEN Converted(ops)
  ELSE ConvertMSO2OpsFrom(msos, i + 1, Append(ops, msos[i]))

ConvertMSO2Ops(msos) == ConvertMSO2OpsFrom(msos, 1, <<>>)

\* the operation ConvertSellOfferBuildersToSellOps appends for a builder
SellOpOf(mob) == IF mob.PassiveOffer THEN ConvertMOB2PSO(mob) ELSE ConvertMOB2MSO(mob)

RECURSIVE ConvertSellOfferBuildersToSellOpsFrom(_, _, _)
ConvertSellOfferBuildersToSellOpsFrom(muts, i, ops) ==
  IF i > Len(muts) THEN Converted(ops)
  ELSE IF IsMOB(muts[i])
    THEN ConvertSellOfferBuildersToSellOpsFrom(muts, i + 1, Append(ops, SellOpOf(muts[i])))
  ELSE Panicked

ConvertSellOfferBuildersToSellOps(muts) == ConvertSellOfferBuildersToSellOpsFrom(muts, 1, <<>>)

---------------------------------------------------------------------------
(* The converters applied to arbitrary sequences *)

USD == CreditAsset("USD", "GISSUER")

\* the operations a caller may pass
OpElems ==
  { [t |-> "CreatePassiveSellOffer", Amount |-> <<"1">>, Selling |-> NativeAsset,
     Buying |-> USD, Price |-> <<"2">>, SourceAccount |-> NilV],
    [t |-> "ManageSellOffer", Amount |-> <<"3">>, Selling |-> USD, Buying |-> NativeAsset,
     Price |-> <<"4">>, OfferID |-> 7,
     SourceAccount |-> [t |-> "SimpleAccount", AccountID |-> "GTRADER"]],
    [t |-> "ManageSellOffer", Amount |-> <<"0">>, Selling |-> NativeAsset, Buying |-> USD,
     Price |-> <<"1">>, OfferID |-> 8, SourceAccount |-> NilV],
    [t |-> "Payment"] }

\* the mutators a caller may pass: builders by value or by pointer, and another mutator
MutElems ==
  {ConvertOp2MOB(o) : o \in {x \in OpElems : ConvertibleOp(x)}}
  \cup {[ConvertOp2MOB(o) EXCEPT !.ptr = TRUE] : o \in {x \in OpElems : x.t = "ManageSellOffer"}}
  \cup {[t |-> "PaymentBuilder"]}

\* the manage sell offers a caller may pass
MsoElems == {ConvertMOB2MSO(m) : m \in {x \in MutElems : IsMOB(x)}}

ConvInputs ==
  {[kind |-> "ops", v |-> q] : q \in SeqsUpTo(OpElems, MaxOps)}
  \cup {[kind |-> "muts", v |-> q] : q \in SeqsUpTo(MutElems, MaxOps)}
  \cup {[kind |-> "msos", v |-> q] : q \in SeqsUpTo(MsoElems, MaxOps)}

InitConv ==
  /\ cin \in ConvInputs
  /\ cout = NilV
  /\ IdleDeposit /\ IdleParse /\ IdleFill /\ IdleTwo

CallConvertOperation2TM ==
  /\ cout = NilV /\ cin.kind = "ops"
  /\ cout' = [fn |-> "ConvertOperation2TM", r |-> ConvertOperation2TM(cin.v)]
  /\ UNCHANGED <<cin, depositVars, parseVars, fillVars, twoVars>>

CallConvertTM2MSO ==
  /\ cout = NilV /\ cin.kind = "muts"
  /\ cout' = [fn |-> "ConvertTM2MSO", r |-> ConvertTM2MSO(cin.v)]
  /\ UNCHANGED <<cin, depositVars, parseVars, fillVars, twoVars>>

CallConvertMSO2Ops ==
  /\ cout = NilV /\ cin.kind = "msos"
  /\ cout' = [fn |-> "ConvertMSO2Ops", r |-> ConvertMSO2Ops(cin.v)]
  /\ UNCHANGED <<cin, depositVars, parseVars, fillVars, twoVars>>

CallConvertSellOfferBuildersToSellOps ==
  /\ cout = NilV /\ cin.kind = "muts"
  /\ cout' = [fn |-> "ConvertSellOfferBuildersToSellOps",
              r |-> ConvertSellOfferBuildersToSellOps(cin.v)]
  /\ UNCHANGED <<cin, depositVars, parseVars, fillVars, twoVars>>

NextConv ==
  \/ CallConvertOperation2TM
  \/ CallConvertTM2MSO
  \/ CallConvertMSO2Ops
  \/ CallConvertSellOfferBuildersToSellOps

SpecConv == InitConv /\ [][NextConv]_vars

---------------------------------------------------------------------------
(* Claims on the converters *)

\* the element a converter can convert
ConvertibleElem(fn, x) ==
  CASE fn = "ConvertOperation2TM" -> x.t \in {"CreatePassiveSellOffer", "ManageSellOffer"}
    [] fn = "ConvertMSO2Ops"      -> TRUE
    [] OTHER                      -> x.t = "ManageOfferBuilder"

\* the conversion of one element by a converter
ElemConversion(fn, x) ==
  CASE fn = "ConvertOperation2TM" -> ConvertOp2MOB(x)
    [] fn = "ConvertTM2MSO"       -> ConvertMOB2MSO(x)
    [] fn = "ConvertMSO2Ops"      -> x
    [] fn = "ConvertSellOfferBuildersToSellOps"
         -> IF x.PassiveOffer THEN ConvertMOB2PSO(x) ELSE ConvertMOB2MSO(x)

\* C9: for a sequence of convertible elements each converter returns a sequence of the
\* same length whose i-th element is the conversion of the i-th input element (so the
\* i-th output carries the i-th input's offer id and passive/manage kind).
C9_ConvertersPreserveOrder ==
  (cout # NilV /\ \A i \in 1..Len(cin.v) : ConvertibleElem(cout.fn, cin.v[i])) =>
    /\ ~cout.r.panicked
    /\ Len(cout.r.out) = Len(cin.v)
    /\ \A i \in 1..Len(cin.v) : cout.r.out[i] = ElemConversion(cout.fn, cin.v[i])
    /\ cout.fn = "ConvertOperation2TM" =>
         \A i \in 1..Len(cin.v) :
           /\ cout.r.out[i].PassiveOffer = (cin.v[i].t = "CreatePassiveSellOffer")
           /\ cin.v[i].t = "ManageSellOffer" => cout.r.out[i].MO.OfferId = cin.v[i].OfferID

\* a converter returned for a sequence of two or more distinct convertible elements
C9_Witness ==
  /\ cout # NilV /\ ~cout.r.panicked
  /\ Len(cin.v) >= 2 /\ cin.v[1] # cin.v[2]
  /\ cout.fn = "ConvertSellOfferBuildersToSellOps"
  /\ cout.r.out[1] # cout.r.out[2]

---------------------------------------------------------------------------
(* FillTracker: the fetch-and-dispatch step behind the FillTracker, FillHandler and
   FillTrackable interfaces *)

HandlerIds == 1..MaxHandlers

\* the k-th trade the venue executes, at position k of its history
Trade(k) == [id |-> k, pos |-> k]

\* GetTradeHistory(pair, cursorStart, nil) answering with n trades: the trades after
\* the cursor, in the venue's order
GetTradeHistory(history, cursorStart, n) == SubSeq(history, cursorStart + 1, cursorStart + n)

\* mutant: the trades are dispatched handler by handler
RECURSIVE DispatchHandlerMajor(_, _)
DispatchHandlerMajor(trades, hs) ==
  IF hs = <<>> THEN <<>>
  ELSE [j \in 1..Len(trades) |-> [h |-> Head(hs), trade |-> trades[j]]]
       \o DispatchHandlerMajor(trades, Tail(hs))

\* the HandleFill invocations of one iteration: each trade, in the order fetched, goes
\* to every handler in registration order
RECURSIVE Dispatch(_, _)
Dispatch(trades, hs) ==
  IF trades = <<>> THEN <<>>
  ELSE [k \in 1..Len(hs) |-> [h |-> hs[k], trade |-> Head(trades)]]
       \o Dispatch(Tail(trades), hs)

\* the cursor after an iteration: the position of the last trade fetched
AdvanceCursor(cur, trades) ==
  IF trades = <<>> THEN cur ELSE trades[Len(trades)].pos

InitFill ==
  /\ handlers = <<>>
  /\ cursor = 0
  /\ venueTrades = <<>>
  /\ delivered = <<>>
  /\ iterations = <<>>
  /\ fetched = <<>>
  /\ ftErr = NilV
  /\ IdleDeposit /\ IdleParse /\ IdleConv /\ IdleTwo

\* RegisterHandler(handler)
RegisterHandler ==
  /\ \E h \in HandlerIds :
       /\ \A k \in 1..Len(handlers) : handlers[k] # h
       /\ handlers' = Append(handlers, h)
  /\ UNCHANGED <<cursor, venueTrades, delivered, iterations, fetched, ftErr>>
  /\ UNCHANGED <<depositVars, parseVars, convVars, twoVars>>

\* a trade executes on the venue
VenueTrade ==
  /\ Len(venueTrades) < MaxTrades
  /\ venueTrades' = Append(venueTrades, Trade(Len(venueTrades) + 1))
  /\ UNCHANGED <<handlers, cursor, delivered, iterations, fetched, ftErr>>
  /\ UNCHANGED <<depositVars, parseVars, convVars, twoVars>>

\* FillTrackSingleIteration with a fetch that succeeds
FillTrackSingleIteration ==
  /\ Len(iterations) < MaxIterations
  /\ \E n \in 0..(Len(venueTrades) - cursor) :
       LET trades == GetTradeHistory(venueTrades, cursor, n) IN
       /\ cursor' = AdvanceCursor(cursor, trades)
       /\ delivered' = delivered \o Dispatch(trades, handlers)
       /\ iterations' = Append(iterations,
                               [trades |-> trades, handlers |-> handlers,
                                start |-> Len(delivered), err |-> NilV])
       /\ fetched' = trades
       /\ ftErr' = NilV
  /\ UNCHANGED <<handlers, venueTrades>>
  /\ UNCHANGED <<depositVars, parseVars, convVars, twoVars>>

\* FillTrackSingleIteration with a fetch that fails: the error is reported, nothing
\* is delivered and the cursor stays
FillTrackSingleIterationError ==
  /\ Len(iterations) < MaxIterations
  /\ \E e \in TransportErrs :
       /\ ftErr' = e
       /\ iterations' = Append(iterations,
                               [trades |-> <<>>, handlers |-> handlers,
                                start |-> Len(delivered), err |-> e])
  /\ fetched' = <<>>
  /\ UNCHANGED <<handlers, cursor, venueTrades, delivered>>
  /\ UNCHANGED <<depositVars, parseVars, convVars, twoVars>>

NextFill ==
  \/ RegisterHandler
  \/ VenueTrade
  \/ FillTrackSingleIteration
  \/ FillTrackSingleIterationError

SpecFill == InitFill /\ [][NextFill]_vars

---------------------------------------------------------------------------
(* Claims on the FillTracker *)

\* the trades fetched so far, over all iterations, in order
RECURSIVE AllFetched(_)
AllFetched(its) == IF its = <<>> THEN <<>> ELSE Head(its).trades \o AllFetched(Tail(its))

\* the end of the HandleFill invocations of iteration k in the log
IterationEnd(k) ==
  IF k = Len(iterations) THEN Len(delivered) ELSE iterations[k + 1].start

\* C10: in every iteration each trade the venue returned is delivered exactly once to
\* each registered handler, trades in the venue's order and, for one trade, handlers in
\* registration order; nothing else is delivered; and the cursor is the position of the
\* last trade fetched.
C10_FillDelivery ==
  /\ \A k \in 1..Len(iterations) :
       LET it == iterations[k]
           T  == Len(it.trades)
           H  == Len(it.handlers)
       IN
       /\ IterationEnd(k) - it.start = T * H
       /\ \A j \in 1..T : \A i \in 1..H :
            delivered[it.start + (j - 1) * H + i] = [h |-> it.handlers[i], trade |-> it.trades[j]]
  /\ Len(iterations) = 0 => delivered = <<>>
  /\ LET all == AllFetched(iterations) IN
     cursor = IF all = <<>> THEN 0 ELSE all[Len(all)].pos

\* three trades fetched two then one, with a single handler: three invocations in
\* trade order and the cursor at the third trade
C10_Witness ==
  /\ Len(iterations) = 2
  /\ Len(iterations[1].trades) = 2 /\ Len(iterations[2].trades) = 1
  /\ Len(handlers) = 1
  /\ delivered = <<[h |-> handlers[1], trade |-> Trade(1)],
                   [h |-> handlers[1], trade |-> Trade(2)],
                   [h |-> handlers[1], trade |-> Trade(3)]>>
  /\ cursor = 3

---------------------------------------------------------------------------
(* Further claims on PrepareDeposit *)

\* a listing query is being added to the calls in this step
ListingQueried ==
  /\ Len(calls') = Len(calls) + 1
  /\ calls'[Len(calls')].op = "DepositAddresses"

\* the state part of C11
C11_Fallback ==
  LET L == listCalls IN
  /\ \A i \in 1..Len(L) :
       Forced(L[i]) =>
         /\ i = 2
         /\ ~Forced(L[1])
         /\ WellFormedListing(L[1].out) /\ FreshPositions(L[1].out) = {}
  /\ (Len(L) >= 1 /\ L[1].out.err = NilV /\ L[1].out.val.t = "array"
        /\ \E i \in 1..Len(L[1].out.val.v) : MarkedNew(L[1].out.val.v[i]))
       => Len(L) = 1 /\ pc = "done" /\ ~Forced(L[1])
  /\ (Len(L) >= 1 /\ WellFormedListing(L[1].out) /\ FreshPositions(L[1].out) # {})
       => ReturnedOK

\* C11: "new"="true" is sent with a listing query if and only if generateNewAddress is
\* true when the query is made; a forced query is only ever the second one, after an
\* unforced listing that succeeded and held no fresh address; and a first listing with
\* a fresh address ends the call after that one query, with no request to mint.
C11_ForcedOnlyAsFallback ==
  /\ [](C11_Fallback)
  /\ [][ListingQueried => (Forced(calls'[Len(calls')]) <=> generateNewAddress)]_vars

\* a forced query was made after an unforced listing with entries, none of them fresh
C11_Witness ==
  LET L == listCalls IN
  /\ Len(L) = 2 /\ Forced(L[2]) /\ ~Forced(L[1])
  /\ Len(L[1].out.val.v) > 0

---------------------------------------------------------------------------
(* Two PrepareDeposit calls for the same asset against a venue whose answers do
   not change.  Each call has its own locals (part_000:16-62 keeps nothing on the
   receiver between calls); the calls interleave freely, back to back included. *)

Callers == {1, 2}

\* the DepositMethods answers from which a call goes on to list addresses
SteadyMethodsOutcomes ==
  {q \in MethodsOutcomes :
     LET r == getDepositMethods(q) IN r.val # PanicV /\ r.err = NilV}

\* the locals of a call at entry
NewCall(a, amt) ==
  [pc |-> "start", asset |-> a, amount |-> amt, dm |-> NilV,
   generateNewAddress |-> FALSE, listed |-> 0, ret |-> NilV]

\* the addresses the other calls have returned by now
handedOut(p) ==
  {call[o].ret.val.Address :
     o \in {x \in Callers \ {p} : call[x].pc = "done" /\ call[x].ret.err = NilV}}

\* mutant: entries whose address an earlier call returned are held back
visibleListing_Reserving(q, reserved) ==
  IF q.err = NilV /\ q.val.t = "array"
    THEN R(ArrV(SelectSeq(q.val.v,
                  LAMBDA x : ~(/\ x.t = "map" /\ "address" \in DOMAIN x.v
                               /\ x.v.address.t = "string"
                               /\ x.v.address.v \in reserved))), NilV)
    ELSE q

\* the listing a call works on, given the venue's answer q and the addresses
\* already returned: the answer itself, filtered by keepOnlyNew alone (the list of
\* addresses in progress of the TODO at part_000:41 is not kept)
visibleListing(q, reserved) == q

InitTwo ==
  /\ venue \in [methods : SteadyMethodsOutcomes, listing : ListOutcomes]
  /\ \E a \in Assets :
       call \in [Callers -> {NewCall(a, amt) : amt \in Amounts}]
  /\ IdleDeposit /\ IdleParse /\ IdleConv /\ IdleFill

ConvertAssetOf(p) ==
  /\ call[p].pc = "start"
  /\ LET a == AssetToString(call[p].asset) IN
     call' = [call EXCEPT ![p] =
                IF a.err # NilV
                  THEN [@ EXCEPT !.pc = "done", !.ret = R(NilV, a.err)]
                  ELSE [@ EXCEPT !.pc = "methods"]]
  /\ UNCHANGED <<venue, depositVars, parseVars, convVars, fillVars>>

QueryDepositMethodsOf(p) ==
  /\ call[p].pc = "methods"
  /\ LET r == getDepositMethods(venue.methods) IN
     call' = [call EXCEPT ![p] =
                IF aboveLimit(r.val, call[p].amount)
                  THEN [@ EXCEPT !.pc = "done", !.dm = r.val,
                                 !.ret = R(NilV, MakeErrDepositAmountAboveLimit(
                                                   call[p].amount, r.val.limit))]
                  ELSE [@ EXCEPT !.pc = "list", !.dm = r.val]]
  /\ UNCHANGED <<venue, depositVars, parseVars, convVars, fillVars>>

QueryDepositAddressesOf(p) ==
  /\ call[p].pc = "list"
  /\ LET it == loopIteration(visibleListing(venue.listing, handedOut(p)),
                             call[p].dm, call[p].generateNewAddress) IN
     call' = [call EXCEPT ![p] =
                IF it.returned
                  THEN [@ EXCEPT !.pc = "done", !.ret = it.ret,
                                 !.generateNewAddress = it.gen,
                                 !.listed = @ + 1]
                  ELSE [@ EXCEPT !.generateNewAddress = it.gen, !.listed = @ + 1]]
  /\ UNCHANGED <<venue, depositVars, parseVars, convVars, fillVars>>

NextTwo ==
  \E p \in Callers :
    ConvertAssetOf(p) \/ QueryDepositMethodsOf(p) \/ QueryDepositAddressesOf(p)

SpecTwo == InitTwo /\ [][NextTwo]_vars

\* call p has returned after listing the venue's addresses at least once
ListedAndDone(p) == call[p].pc = "done" /\ call[p].listed > 0

\* C12: against a venue whose answers do not change, any two calls for the same
\* asset that got as far as listing addresses end alike: both fail with the same
\* error or both succeed with the same address; and when the listing is well formed
\* and holds a fresh address every such call succeeds, after one listing query, with
\* the last fresh address of the listing, whether or not the other call has
\* already returned it.
C12_SameAddressTwice ==
  /\ \A p, o \in Callers :
       ListedAndDone(p) /\ ListedAndDone(o) =>
         /\ call[p].ret.err = call[o].ret.err
         /\ call[p].ret.err = NilV =>
              call[p].ret.val.Address = call[o].ret.val.Address
  /\ \A p \in Callers :
       (ListedAndDone(p) /\ WellFormedListing(venue.listing)
          /\ FreshPositions(venue.listing) # {}) =>
         /\ call[p].ret.err = NilV
         /\ call[p].listed = 1
         /\ Str(call[p].ret.val.Address)
              = venue.listing.val.v[Max(FreshPositions(venue.listing))].v.address

\* both calls returned, with different amounts, the same address of a listing
\* that holds two fresh ones
C12_Witness ==
  /\ \A p \in Callers : ListedAndDone(p) /\ call[p].ret.err = NilV
  /\ call[1].ret.val.Address = call[2].ret.val.Address
  /\ call[1].amount # call[2].amount
  /\ Cardinality(FreshPositions(venue.listing)) = 2

---------------------------------------------------------------------------
(* Claims on the fields of the DepositMethods and DepositAddresses responses *)

\* the DepositMethods query was answered with an array whose first element is a map
MethodsAnswered ==
  /\ Len(calls) >= 1 /\ calls[1].op = "DepositMethods"
  /\ calls[1].out.err = NilV /\ calls[1].out.val.t = "array"
  /\ Len(calls[1].out.val.v) >= 1 /\ calls[1].out.val.v[1].t = "map"

methodsMap == calls[1].out.val.v[1].v

\* v is a number as the venue sends one: a float or a decimal string
IsNumeric(v) == v.t = "float64" \/ IsDecimalString(v)

NumericValue(v) ==
  IF v.t = "float64" THEN v.v ELSE CHOOSE n \in 0..9 : <<ToString(n)>> = v.v

\* the fields of the methods map other than 'limit' and 'fee' parse
MethodAndGenAddressValid(m) ==
  /\ "method" \in DOMAIN m /\ m.method.t = "string"
  /\ "gen-address" \in DOMAIN m /\ m["gen-address"].t = "bool"

LimitValid(m) ==
  "limit" \in DOMAIN m /\ (m.limit = Bool(FALSE) \/ IsNumeric(m.limit))

FeeValid(m) == "fee" \in DOMAIN m => IsNumeric(m.fee)

\* a listing answered with an array of maps
ArrayOfMaps(q) ==
  /\ q.err = NilV /\ q.val.t = "array"
  /\ \A i \in 1..Len(q.val.v) : q.val.v[i].t = "map"

\* a missing 'fee' gives a nil fee and a missing 'new' a non-fresh address, both
\* without error
C13_AbsentDefaulted ==
  /\ (MethodsAnswered /\ "fee" \notin DOMAIN methodsMap
        /\ MethodAndGenAddressValid(methodsMap) /\ LimitValid(methodsMap))
       => dm # NilV /\ dm.fee = NilV
  /\ \A i \in 1..Len(listCalls) :
       LET q == listCalls[i].out IN
       (WellFormedListing(q) /\ FreshPositions(q) = {}
          /\ \E j \in 1..Len(q.val.v) : "new" \notin DOMAIN q.val.v[j].v)
       => /\ i = 1 => (pc = "list" \/ Len(listCalls) = 2)
          /\ i = 2 => (pc = "done" /\ ret = R(NilV, ErrGenerateFailed))

\* a 'fee' of the wrong type fails the parse, and PrepareDeposit returns that error
C13_WrongTypeFee ==
  (MethodsAnswered /\ "fee" \in DOMAIN methodsMap
     /\ methodsMap.fee.t \notin {"string", "float64"})
  => /\ parseDepositMethods(methodsMap).err # NilV
     /\ pc = "done" /\ Len(calls) = 1
     /\ ret = R(NilV, parseDepositMethods(methodsMap).err)
     /\ (MethodAndGenAddressValid(methodsMap) /\ LimitValid(methodsMap))
          => IsTypeMismatch(ret.err, "parseNumber", "fee", "DepositMethods",
                            methodsMap.fee)

\* a 'new' of the wrong type fails the parse, and PrepareDeposit returns the
\* error e it is said to return
WrongTypeNewReturns(e(_)) ==
  \A i \in 1..Len(listCalls) :
    LET q == listCalls[i].out IN
    (ArrayOfMaps(q)
       /\ \E j \in 1..Len(q.val.v) :
            "new" \in DOMAIN q.val.v[j].v /\ q.val.v[j].v.new.t # "bool")
    => /\ getDepositAddress(q).err # NilV
       /\ i = Len(listCalls) /\ pc = "done"
       /\ ret = R(NilV, e(getDepositAddress(q).err))

ParseError(e) == e

\* C13: in parseDepositAddress a missing 'new' makes the address non-fresh and in
\* parseDepositMethods a missing 'fee' gives a nil fee, both without error; if
\* 'new' or 'fee' is present with a value of the wrong type the parse fails and
\* PrepareDeposit returns the parse error instead of a result.
C13_AbsentDefaultedWrongTypeFatal ==
  /\ C13_AbsentDefaulted
  /\ C13_WrongTypeFee
  /\ WrongTypeNewReturns(ParseError)

\* what holds of the code in the place of the last part of C13: the error returned
\* is the parse error as PrepareDeposit's listing branch passes it on
C13_WrongTypeNewAsPassedOn == WrongTypeNewReturns(listingError)

\* C14: a 'limit' of boolean false yields a nil limit, so that no amount is refused
\* and the call goes on to list addresses; a 'limit' of boolean true is rejected as
\* an invalid response and the call fails with no listing query; a float or
\* decimal-string 'limit' becomes the numeric limit the amount is checked against.
C14_BooleanLimit ==
  MethodsAnswered /\ "limit" \in DOMAIN methodsMap =>
    LET m == methodsMap
        rest == MethodAndGenAddressValid(m) /\ FeeValid(m)
    IN
    /\ (m.limit = Bool(FALSE) /\ rest) =>
         /\ dm # NilV /\ dm.limit = NilV
         /\ Len(calls) = 1 => pc = "list"
    /\ m.limit = Bool(TRUE) =>
         /\ pc = "done" /\ ret.val = NilV /\ ret.err # NilV
         /\ Len(calls) = 1
         /\ ("method" \in DOMAIN m /\ m.method.t = "string")
              => HasPrefix(ret.err.msg, <<"invalid", "value", "for", "'limit'">>)
    /\ (IsNumeric(m.limit) /\ rest) =>
         /\ dm # NilV /\ dm.limit = Number(NumericValue(m.limit))
         /\ Len(calls) = 1 =>
              IF amount.val > NumericValue(m.limit)
                THEN /\ pc = "done"
                     /\ ret = R(NilV, MakeErrDepositAmountAboveLimit(amount, dm.limit))
                ELSE pc = "list"

\* with a 'limit' of false the largest amount got as far as a listing query
C14_Witness ==
  /\ MethodsAnswered /\ "limit" \in DOMAIN methodsMap
  /\ methodsMap.limit = Bool(FALSE)
  /\ amount = Number(MaxAmount)
  /\ Len(listCalls) >= 1

====
